---- MODULE Spec2Model ----
(***************************************************************************)
(* A model of the SSH monitor of src/ssh_monitor.py: the credential parser *)
(* (HostCredentials.get_host_credentials_from_line), one SSH session       *)
(* (SSHExecutor.get_commands_results) and the pooled fan-out / fan-in of   *)
(* check_all_hosts_status.                                                 *)
(*                                                                         *)
(* Text is modelled as a sequence of one-character strings, so that the    *)
(* regular expression and the address validation work on the characters   *)
(* of a line and not on an abstraction of it.                              *)
(***************************************************************************)
EXTENDS Integers, Sequences, FiniteSets, TLC

VARIABLES
    fileExists,     \* os.path.isfile(file_path)
    file,           \* the lines the generator has read so far, in file order
    disposition,    \* per line read: "comment", "parsed" or "skipped"
    pool_size,      \* max_workers of the ThreadPoolExecutor
    mainPc,         \* position of the thread running check_all_hosts_status
    tasks,          \* one record per submitted call of connect_and_get_results
    queue,          \* the executor's work queue: task ids not yet taken
    worker,         \* worker thread -> the task it runs, 0 when idle
    returned,       \* the list check_all_hosts_status returns
    raisedExc,      \* the exception that left check_all_hosts_status
    parts,          \* the pieces a test line of the parser was built from
    line,           \* the test line handed to the parser
    parsed,         \* what get_host_credentials_from_line made of it
    leadingZeros,   \* ipaddress of the running Python: "reject" or "allow"
    completed,      \* history: the task ids in the order their checks ended
    matrix,         \* the list of rows handed to the two sort functions
    original,       \* history: the rows of matrix when it was built
    countSorted,    \* what sort_matrix_rows_by_counting returned, if called
    builtinSorted   \* what sort_matrix_rows_builtin returned, if called

vars == << fileExists, file, disposition, pool_size, mainPc, tasks, queue,
           worker, returned, raisedExc, parts, line, parsed, leadingZeros,
           completed, matrix, original, countSorted, builtinSorted >>

sortVars == << matrix, original, countSorted, builtinSorted >>

pipelineVars == << fileExists, file, disposition, pool_size, mainPc, tasks,
                   queue, worker, returned, raisedExc >>

parserVars == << parts, line, parsed, leadingZeros >>

(***************************************************************************)
(* Bounds of the model.                                                    *)
(***************************************************************************)
MaxLines == 3
MaxPool == 2
MaxCommands == 2
MaxGroups == 5
MaxRows == 2
MaxCols == 3

None == "None"

(***************************************************************************)
(* Characters.                                                             *)
(***************************************************************************)
Digits == {"0", "1", "2", "3", "4", "5", "6", "7", "8", "9"}

Letters ==
    { "a", "b", "c", "d", "e", "f", "g", "h", "i", "j", "k", "l", "m", "n", "o",
      "p", "q", "r", "s", "t", "u", "v", "w", "x", "y", "z", "_" }

IsDigit(c) == c \in Digits

\* \w of the re module: letters, digits and the underscore.
IsWord(c) == c \in Digits \cup Letters

DigitValue(c) ==
    CASE c = "0" -> 0 [] c = "1" -> 1 [] c = "2" -> 2 [] c = "3" -> 3
      [] c = "4" -> 4 [] c = "5" -> 5 [] c = "6" -> 6 [] c = "7" -> 7
      [] c = "8" -> 8 [] c = "9" -> 9

Max(S) == CHOOSE x \in S : \A y \in S : y <= x

\* s[i..j-1] consists of digits, of word characters (i <= j).
AllDigits(s, i, j) == \A k \in i..(j - 1) : IsDigit(s[k])

AllWord(s, i, j) == \A k \in i..(j - 1) : IsWord(s[k])

\* The text lit stands in s at position i.
LiteralAt(s, i, lit) ==
    /\ i + Len(lit) - 1 <= Len(s)
    /\ \A k \in 1..Len(lit) : s[i + k - 1] = lit[k]

(***************************************************************************)
(* The compiled pattern                                                    *)
(*   (\d{1,3}\.\d{1,3}\.\d{1,3}\.\d{1,3}), (\w+)/(\w+)                     *)
(* matched by re.match: anchored at the first character, not at the end.   *)
(* Each operator gives the positions at which the rest of the pattern may  *)
(* go on; the greedy match is the longest choice at each quantifier.       *)
(***************************************************************************)
ip_separator == << ",", " " >>

username_separator == << "/" >>

\* \d{1,3} from position i: the positions just after 1, 2 or 3 digits.
MatchOctet(s, i) ==
    { i + n : n \in { m \in 1..3 : i + m - 1 <= Len(s) /\ AllDigits(s, i, i + m) } }

\* Variant: [a-z]+ in place of \w+.
MatchWordMutant(s, i) ==
    { j \in (i + 1)..(Len(s) + 1) : \A k \in i..(j - 1) : s[k] \in Letters \ { "_" } }

\* \w+ from position i: the positions just after one or more word characters.
MatchWord(s, i) ==
    { j \in (i + 1)..(Len(s) + 1) : AllWord(s, i, j) }

\* A literal from each position of P: the positions just after it.
ThenLiteral(s, P, lit) ==
    { p + Len(lit) : p \in { q \in P : LiteralAt(s, q, lit) } }

\* The ends of \d{1,3}\. repeated n times and then \d{1,3}, from position 1.
RECURSIVE MatchAddress(_, _)
MatchAddress(s, n) ==
    IF n = 0
    THEN MatchOctet(s, 1)
    ELSE UNION { MatchOctet(s, p) : p \in ThenLiteral(s, MatchAddress(s, n - 1), << "." >>) }

\* Variant: re.fullmatch, the pattern must reach the end of the text.
PatternEndMutant(s, p) == p = Len(s) + 1

\* re.match with a pattern that has no $: the match may end at any position
\* p of the text, whatever follows.
PatternEnd(s, p) == p <= Len(s) + 1

\* All ways the pattern matches s: <<end of address, end of username, end of password>>.
Matches(s) ==
    UNION { UNION { { << a, u, p >> :
                        p \in { q \in MatchWord(s, u + Len(username_separator)) :
                                   PatternEnd(s, q) } } :
                    u \in { v \in MatchWord(s, a + Len(ip_separator)) :
                               LiteralAt(s, v, username_separator) } } :
            a \in { b \in MatchAddress(s, 3) : LiteralAt(s, b, ip_separator) } }

\* The match the backtracking engine reports: greedy, leftmost quantifier first.
GreedyMatch(M) ==
    CHOOSE m \in M : \A o \in M :
        \/ m[1] > o[1]
        \/ m[1] = o[1] /\ m[2] > o[2]
        \/ m[1] = o[1] /\ m[2] = o[2] /\ m[3] >= o[3]

(***************************************************************************)
(* ipaddress.ip_address on dotted text: IPv4Address, and IPv6Address       *)
(* refuses any text without a colon.                                       *)
(***************************************************************************)
\* str.split("."): the pieces between the dots.
RECURSIVE SplitDots(_)
SplitDots(s) ==
    IF \A k \in 1..Len(s) : s[k] # "."
    THEN << s >>
    ELSE LET d == CHOOSE k \in 1..Len(s) : s[k] = "." /\ \A j \in 1..(k - 1) : s[j] # "."
         IN  << SubSeq(s, 1, d - 1) >> \o SplitDots(SubSeq(s, d + 1, Len(s)))

\* int(octet_str, 10)
RECURSIVE DecimalValue(_)
DecimalValue(s) ==
    IF s = << >> THEN 0
    ELSE 10 * DecimalValue(SubSeq(s, 1, Len(s) - 1)) + DigitValue(s[Len(s)])

\* IPv4Address._parse_octet: digits only, at most three, no leading zero
\* where the library refuses them, and at most 255.
ValidOctet(o, zeros) ==
    /\ o # << >>
    /\ AllDigits(o, 1, Len(o) + 1)
    /\ Len(o) <= 3
    /\ (zeros = "reject" /\ Len(o) > 1) => o[1] # "0"
    /\ DecimalValue(o) <= 255

\* Variant: the pattern alone, without the second validation of the address.
ValidIPAddressMutant(addr, zeros) == TRUE

ValidIPAddress(addr, zeros) ==
    LET octets == SplitDots(addr)
    IN  /\ Len(octets) = 4
        /\ \A k \in 1..4 : ValidOctet(octets[k], zeros)

(***************************************************************************)
(* HostCredentials.get_host_credentials_from_line                          *)
(***************************************************************************)
HostCredentials(ip_address, username, password) ==
    [ ip_address |-> ip_address, username |-> username, password |-> password,
      private_key_file |-> None ]

ParseFailure == [ ok |-> FALSE, error |-> "ValueError" ]

get_host_credentials_from_line(s, zeros) ==
    LET M == Matches(s)
    IN  IF M = {}
        THEN ParseFailure
        ELSE LET m == GreedyMatch(M)
                 ip_address == SubSeq(s, 1, m[1] - 1)
                 username == SubSeq(s, m[1] + Len(ip_separator), m[2] - 1)
                 password == SubSeq(s, m[2] + Len(username_separator), m[3] - 1)
             IN  IF ~ValidIPAddress(ip_address, zeros)
                 THEN ParseFailure
                 ELSE [ ok |-> TRUE,
                        host |-> HostCredentials(ip_address, username, password) ]

(***************************************************************************)
(* Command and SSHExecutor                                                 *)
(***************************************************************************)
Command(command_name, command) == [ command_name |-> command_name, command |-> command ]

\* SSHExecutor.__default_commands_list
default_commands_list == << Command("Storage", "df -h /") >>

\* A dict as a function on its keys.
EmptyDict == [ k \in {} |-> None ]

DictSet(d, key, value) ==
    [ k \in DOMAIN d \cup { key } |-> IF k = key THEN value ELSE d[k] ]

\* What client.connect can do: return, or raise AuthenticationException,
\* socket.timeout, or any other exception of the transport.
ConnectOutcomes == { "ok", "auth", "timeout", "fault" }

\* What exec_command and the two reads can do: output with an empty or a
\* non-empty standard error, paramiko.SSHException when the channel does not
\* open, or any other exception.
ExecOutcomes == { "ok", "stderr", "chanfail", "fault" }

\* The text on standard error changes no control flow; the pooled run draws
\* the outcomes that do.
PoolExecOutcomes == { "ok", "chanfail", "fault" }

\* A task of the executor before a worker has taken it.
NewTask(lineNo, host) ==
    [ line |-> lineNo, host |-> host, pc |-> "queued", session |-> "none",
      sessions |-> 0, commands |-> << >>, connectOutcome |-> "none",
      execLog |-> << >>, results |-> EmptyDict, status |-> None,
      result |-> EmptyDict, exc |-> None, closes |-> 0 ]

\* An optional argument: << >> when it is left out (None), << v >> when given.
Omitted == << >>

Given(v) == << v >>

\* SSHExecutor.__init__: the session of one host, not yet connected.
SSHExecutor(task, commands_list) ==
    [ task EXCEPT !.pc = "created", !.session = "Unconnected",
                  !.sessions = @ + 1,
                  !.commands = IF commands_list = Omitted
                               THEN default_commands_list ELSE commands_list[1] ]

\* Variant: a failed connect leaves an entry in the result.
OnConnectErrorStale(outcome) ==
    [ status |-> IF outcome = "auth" THEN "Authentication error" ELSE "Connection timout",
      result |-> DictSet(EmptyDict, "Storage", [ output |-> None, error |-> "" ]),
      exc |-> IF outcome = "fault" THEN "Exception" ELSE None ]

\* Variant: the two except clauses set each other's status.
OnConnectErrorSwapped(outcome) ==
    [ status |-> IF outcome = "auth" THEN "Connection timout" ELSE "Authentication error",
      result |-> EmptyDict,
      exc |-> IF outcome = "fault" THEN "Exception" ELSE None ]

\* The except clauses of get_commands_results: the status and result of a
\* connect that raised, or the exception when no clause catches it.
OnConnectError(outcome) ==
    CASE outcome = "auth" ->
           [ status |-> "Authentication error", result |-> EmptyDict, exc |-> None ]
      [] outcome = "timeout" ->
           [ status |-> "Connection timout", result |-> EmptyDict, exc |-> None ]
      [] outcome = "fault" ->
           [ status |-> None, result |-> EmptyDict, exc |-> "Exception" ]

\* Variant: no except clause, a channel that does not open raises.
execute_commandMutant(command, outcome) ==
    CASE outcome = "ok" ->
           [ raised |-> FALSE, output |-> "stdout", error |-> "" ]
      [] outcome = "stderr" ->
           [ raised |-> FALSE, output |-> "stdout", error |-> "stderr" ]
      [] outcome \in { "chanfail", "fault" } ->
           [ raised |-> TRUE, output |-> None, error |-> None ]

\* execute_command: the entry of one command, or the exception it lets through.
execute_command(command, outcome) ==
    CASE outcome = "ok" ->
           [ raised |-> FALSE, output |-> "stdout", error |-> "" ]
      [] outcome = "stderr" ->
           [ raised |-> FALSE, output |-> "stdout", error |-> "stderr" ]
      [] outcome = "chanfail" ->
           [ raised |-> FALSE, output |-> None, error |-> "Failed to execute" ]
      [] outcome = "fault" ->
           [ raised |-> TRUE, output |-> None, error |-> None ]

\* Variant: close after the try statement instead of in its finally clause.
FinallyCloseMutant(task) ==
    IF task.exc = None
    THEN [ task EXCEPT !.closes = @ + 1, !.session = "Closed", !.pc = "closed" ]
    ELSE [ task EXCEPT !.pc = "closed" ]

\* The finally clause of get_commands_results: client.close() on every path.
FinallyClose(task) ==
    [ task EXCEPT !.closes = @ + 1, !.session = "Closed", !.pc = "closed" ]

(***************************************************************************)
(* One session: SSHExecutor.get_commands_results, step by step.            *)
(***************************************************************************)
\* Variant: no else clause, execute_commands follows the except clauses.
AfterConnectMutant(outcome, commands) ==
    IF outcome # "fault" /\ commands # << >> THEN "executing" ELSE "finally"

\* Where get_commands_results goes after connect: the else clause, which
\* runs execute_commands, is entered only when connect raised nothing; the
\* loop has a turn to make only when there is a command.
AfterConnect(outcome, commands) ==
    IF outcome = "ok" /\ commands # << >> THEN "executing" ELSE "finally"

\* self.connect() and the clause that handles what it raised.
Connect(t, outcome) ==
    /\ tasks[t].pc = "created"
    /\ tasks' = [ tasks EXCEPT ![t] =
          IF outcome = "ok"
          THEN [ @ EXCEPT !.connectOutcome = outcome, !.session = "Connected",
                          !.status = "Success",
                          !.pc = AfterConnect(outcome, tasks[t].commands) ]
          ELSE LET e == OnConnectError(outcome)
               IN  [ @ EXCEPT !.connectOutcome = outcome, !.status = e.status,
                               !.result = e.result, !.exc = e.exc,
                               !.pc = AfterConnect(outcome, tasks[t].commands) ] ]
    /\ UNCHANGED << fileExists, file, disposition, pool_size, mainPc, queue, worker,
                    returned, raisedExc, parserVars, completed, sortVars >>

\* Variant: the loop walks the list from its end.
CommandAtTurnMutant(commands, k) == Len(commands) + 1 - k

\* for command in self.commands: the k-th turn of the loop takes the k-th
\* element of the list.
CommandAtTurn(commands, k) == k

\* One turn of the loop of execute_commands; after the last command the
\* collected dict becomes the result.
ExecuteCommand(t, outcome) ==
    /\ tasks[t].pc = "executing"
    /\ LET task == tasks[t]
           k == Len(task.execLog) + 1
           i == CommandAtTurn(task.commands, k)
           command == task.commands[i]
           r == execute_command(command, outcome)
           log == Append(task.execLog, [ index |-> i, outcome |-> outcome ])
           entries == DictSet(task.results, command.command_name,
                              [ output |-> r.output, error |-> r.error ])
       IN  tasks' = [ tasks EXCEPT ![t] =
             IF r.raised
             THEN [ @ EXCEPT !.execLog = log, !.exc = "Exception", !.pc = "finally" ]
             ELSE IF k = Len(task.commands)
             THEN [ @ EXCEPT !.execLog = log, !.results = entries, !.result = entries,
                             !.pc = "finally" ]
             ELSE [ @ EXCEPT !.execLog = log, !.results = entries ] ]
    /\ UNCHANGED << fileExists, file, disposition, pool_size, mainPc, queue, worker,
                    returned, raisedExc, parserVars, completed, sortVars >>

\* finally: self.client.close(); then get_commands_results returns
\* {"status", "result"} or lets the exception through, connect_and_get_results
\* returns {host: res}, and the worker that ran the call is free.
EndOfCall(t) ==
    /\ tasks[t].pc = "finally"
    /\ tasks' = [ tasks EXCEPT ![t] = [ FinallyClose(@) EXCEPT !.pc = "done" ] ]
    /\ worker' = [ w \in DOMAIN worker |-> IF worker[w] = t THEN 0 ELSE worker[w] ]
    /\ UNCHANGED << fileExists, file, disposition, pool_size, mainPc, queue,
                    returned, raisedExc, parserVars, sortVars >>

CloseAndReturn(t) == EndOfCall(t) /\ UNCHANGED completed

\* The same step with the order in which the calls end written down.
CloseAndReturnLogged(t) == EndOfCall(t) /\ completed' = Append(completed, t)

(***************************************************************************)
(* check_all_hosts_status: the generators feeding executor.map, the pool,  *)
(* and the list of the results.                                            *)
(***************************************************************************)
comment_symbol == ";"

\* The lines a host-list file is made of.
GoodLine == << "1", ".", "2", ".", "3", ".", "4", ",", " ", "u", "/", "p", "\n" >>

CommentLine == << ";", "c", "\n" >>

MalformedLine == << "x", "\n" >>

BadAddressLine == << "2", "5", "6", ".", "0", ".", "0", ".", "1", ",", " ", "u", "/", "p", "\n" >>

FileLines == { GoodLine, CommentLine, MalformedLine, BadAddressLine }

\* Variant: the symbol anywhere in the line.
StartsWithMutant(s, symbol) == \E i \in 1..Len(s) : s[i] = symbol

\* str.startswith with the one-character comment symbol.
StartsWith(s, symbol) == Len(s) >= 1 /\ s[1] = symbol

\* Variant: the ValueError of the parser leaves get_host_credentials and
\* ends the generator.
OnValueErrorMutant == "raised"

\* except ValueError: the line is logged and the loop of
\* get_host_credentials continues with the next line.
OnValueError == "reading"

\* Variant: one thread more than max_workers.
WorkerIdsMutant(k) == 1..(k + 1)

\* The threads a ThreadPoolExecutor(max_workers=k) runs.
WorkerIds(k) == 1..k

\* Variant: the work item is read and left on the queue.
DequeueMutant(q) == q

\* A worker takes the oldest work item off the queue.
Dequeue(q) == Tail(q)

\* Variant: the with block is left without joining the workers.
AllDoneMutant == TRUE

\* The exit of the with block: shutdown(wait=True) has joined every worker.
AllDone == \A t \in 1..Len(tasks) : tasks[t].pc = "done"

\* Variant: the results with the latest submitted call first.
ResultListMutant(ts) ==
    [ i \in 1..Len(ts) |->
        [ host |-> ts[Len(ts) + 1 - i].host, task |-> Len(ts) + 1 - i,
          res |-> [ status |-> ts[Len(ts) + 1 - i].status,
                    result |-> ts[Len(ts) + 1 - i].result ] ] ]

\* list(results): each future's result in submission order; the first
\* future that holds an exception raises it.
ResultList(ts) ==
    [ i \in 1..Len(ts) |->
        [ host |-> ts[i].host, task |-> i,
          res |-> [ status |-> ts[i].status, result |-> ts[i].result ] ] ]

NoParts == [ octets |-> << >> ]

\* No matrix is being sorted.
SortIdle ==
    /\ matrix = << >>
    /\ original = << >>
    /\ countSorted = << >>
    /\ builtinSorted = << >>

Init ==
    /\ fileExists \in BOOLEAN
    /\ file = << >>
    /\ disposition = << >>
    /\ pool_size \in 1..MaxPool
    /\ mainPc = "start"
    /\ tasks = << >>
    /\ queue = << >>
    /\ worker = [ w \in 1..(MaxPool + 1) |-> 0 ]
    /\ returned = << >>
    /\ raisedExc = None
    /\ parts = NoParts
    /\ line = << >>
    /\ parsed = << >>
    /\ leadingZeros = "reject"
    /\ completed = << >>
    /\ SortIdle

\* get_hosts up to its first line: the file must exist.
OpenFile ==
    /\ mainPc = "start"
    /\ IF fileExists
       THEN mainPc' = "reading" /\ UNCHANGED raisedExc
       ELSE mainPc' = "raised" /\ raisedExc' = "ValueError"
    /\ UNCHANGED << fileExists, file, disposition, pool_size, tasks, queue, worker,
                    returned, parserVars, completed, sortVars >>

\* One line through get_hosts, get_active_hosts and get_host_credentials;
\* executor.map submits the call for the host the line yields.
ReadLine(l) ==
    /\ mainPc = "reading"
    /\ Len(file) < MaxLines
    /\ file' = Append(file, l)
    /\ IF StartsWith(l, comment_symbol)
       THEN /\ disposition' = Append(disposition, "comment")
            /\ UNCHANGED << tasks, queue, mainPc >>
       ELSE LET r == get_host_credentials_from_line(l, leadingZeros)
            IN  IF r.ok
                THEN /\ disposition' = Append(disposition, "parsed")
                     /\ tasks' = Append(tasks, NewTask(Len(file) + 1, r.host))
                     /\ queue' = Append(queue, Len(tasks) + 1)
                     /\ UNCHANGED mainPc
                ELSE /\ disposition' = Append(disposition, "skipped")
                     /\ mainPc' = OnValueError
                     /\ UNCHANGED << tasks, queue >>
    /\ UNCHANGED << fileExists, pool_size, worker, returned, raisedExc,
                    parserVars, completed, sortVars >>

\* The file is exhausted: executor.map has submitted every call.
EndOfFile ==
    /\ mainPc = "reading"
    /\ mainPc' = "joining"
    /\ UNCHANGED << fileExists, file, disposition, pool_size, tasks, queue, worker,
                    returned, raisedExc, parserVars, completed, sortVars >>

\* Variant: a thread goes back to the queue while its call still runs.
IdleMutant(w) == TRUE

\* A worker thread runs the call of one work item to its end before it
\* looks at the queue again.
Idle(w) == worker[w] = 0

\* An idle worker thread takes a work item and builds the host's SSHExecutor.
WorkerTake(w) ==
    /\ w \in WorkerIds(pool_size)
    /\ Idle(w)
    /\ queue # << >>
    /\ LET t == Head(queue)
       IN  /\ worker' = [ worker EXCEPT ![w] = t ]
           /\ tasks' = [ tasks EXCEPT ![t] = SSHExecutor(@, Omitted) ]
    /\ queue' = Dequeue(queue)
    /\ UNCHANGED << fileExists, file, disposition, pool_size, mainPc, returned,
                    raisedExc, parserVars, completed, sortVars >>

\* The with block is left once every worker is done; list(results) then
\* gives the list or raises.
ReturnResults ==
    /\ mainPc = "joining"
    /\ AllDone
    /\ IF \E t \in 1..Len(tasks) : tasks[t].exc # None
       THEN /\ mainPc' = "raised"
            /\ raisedExc' = tasks[CHOOSE t \in 1..Len(tasks) :
                                   /\ tasks[t].exc # None
                                   /\ \A u \in 1..(t - 1) : tasks[u].exc = None].exc
            /\ UNCHANGED returned
       ELSE /\ mainPc' = "returned"
            /\ returned' = ResultList(tasks)
            /\ UNCHANGED raisedExc
    /\ UNCHANGED << fileExists, file, disposition, pool_size, tasks, queue, worker,
                    parserVars, completed, sortVars >>

Next ==
    \/ OpenFile
    \/ \E l \in FileLines : ReadLine(l)
    \/ EndOfFile
    \/ \E w \in DOMAIN worker : WorkerTake(w)
    \/ \E t \in 1..Len(tasks) : \E o \in ConnectOutcomes : Connect(t, o)
    \/ \E t \in 1..Len(tasks) : \E o \in PoolExecOutcomes : ExecuteCommand(t, o)
    \/ \E t \in 1..Len(tasks) : CloseAndReturn(t)
    \/ ReturnResults

Spec == Init /\ [][Next]_vars

(***************************************************************************)
(* The pipeline with the order in which the checks end kept as history.    *)
(***************************************************************************)
NextOrder ==
    \/ OpenFile
    \/ \E l \in FileLines : ReadLine(l)
    \/ EndOfFile
    \/ \E w \in DOMAIN worker : WorkerTake(w)
    \/ \E t \in 1..Len(tasks) : \E o \in ConnectOutcomes : Connect(t, o)
    \/ \E t \in 1..Len(tasks) : \E o \in PoolExecOutcomes : ExecuteCommand(t, o)
    \/ \E t \in 1..Len(tasks) : CloseAndReturnLogged(t)
    \/ ReturnResults

SpecOrder == Init /\ [][NextOrder]_vars

(***************************************************************************)
(* The pipeline with hosts that may fall silent while a command runs:      *)
(* exec_command is called without a timeout, so the channel blocks and     *)
(* std_out.read() waits for the end of the output for as long as it takes. *)
(***************************************************************************)
\* The host stops answering during a command: the read never returns, the
\* worker stays in execute_command.
ExecuteBlocks(t) ==
    /\ tasks[t].pc = "executing"
    /\ tasks' = [ tasks EXCEPT ![t].pc = "blocked" ]
    /\ UNCHANGED << fileExists, file, disposition, pool_size, mainPc, queue, worker,
                    returned, raisedExc, parserVars, completed, sortVars >>

NextBlocking ==
    \/ Next
    \/ \E t \in 1..Len(tasks) : ExecuteBlocks(t)

SpecBlocking == Init /\ [][NextBlocking]_vars

(***************************************************************************)
(* The generators on their own: the lines of the file go through           *)
(* get_hosts, get_active_hosts and get_host_credentials while no worker    *)
(* has started yet; the file may also hold lines with the comment symbol   *)
(* after other text, and blank lines.                                      *)
(***************************************************************************)
IndentedCommentLine == << " ", ";", "c", "\n" >>

TrailingCommentLine ==
    << "1", ".", "2", ".", "3", ".", "4", ",", " ", "u", "/", "p", ";", "c", "\n" >>

BlankLine == << "\n" >>

ReaderLines == FileLines \cup { IndentedCommentLine, TrailingCommentLine, BlankLine }

NextReader ==
    \/ OpenFile
    \/ \E l \in ReaderLines : ReadLine(l)
    \/ EndOfFile

SpecReader == Init /\ [][NextReader]_vars

(***************************************************************************)
(* One session on its own: an SSHExecutor built with a list of commands of *)
(* the caller, or with none, and get_commands_results called on it.        *)
(***************************************************************************)
CommandSet ==
    { Command("Storage", "df -h /"), Command("Uptime", "uptime"),
      Command("Storage", "df -h /home") }

CommandLists == UNION { [ 1..n -> CommandSet ] : n \in 0..MaxCommands }

SessionHost ==
    HostCredentials(<< "1", ".", "2", ".", "3", ".", "4" >>, << "u" >>, << "p" >>)

InitSession ==
    /\ fileExists = TRUE
    /\ file = << >>
    /\ disposition = << >>
    /\ pool_size = 1
    /\ mainPc = "session"
    /\ \E commands_list \in { Given(c) : c \in CommandLists } \cup { Omitted } :
          tasks = << SSHExecutor(NewTask(0, SessionHost), commands_list) >>
    /\ queue = << >>
    /\ worker = [ w \in 1..(MaxPool + 1) |-> 0 ]
    /\ returned = << >>
    /\ raisedExc = None
    /\ parts = NoParts
    /\ line = << >>
    /\ parsed = << >>
    /\ leadingZeros = "reject"
    /\ completed = << >>
    /\ SortIdle

NextSession ==
    \/ \E o \in ConnectOutcomes : Connect(1, o)
    \/ \E o \in ExecOutcomes : ExecuteCommand(1, o)
    \/ CloseAndReturn(1)

SpecSession == InitSession /\ [][NextSession]_vars

(***************************************************************************)
(* The parser on its own: a line is assembled from its pieces and handed   *)
(* to get_host_credentials_from_line.                                      *)
(***************************************************************************)
OctetTexts ==
    { << "0" >>, << "2", "5", "5" >>, << "2", "5", "6" >>, << "0", "1" >>,
      << "1", "0", "0", "0" >> }

UserTexts == { << "u" >>, << "a", "_", "1" >> }

PasswordTexts == { << "p", "9" >> }

\* What surrounds the fields: text before the address, the text between the
\* address and the username, and the text after the password.
Shapes ==
    { [ lead |-> << >>, sep |-> << ",", " " >>, tail |-> << >> ],
      [ lead |-> << >>, sep |-> << ",", " " >>, tail |-> << "\n" >> ],
      [ lead |-> << >>, sep |-> << ",", " " >>, tail |-> << ";", "x" >> ],
      [ lead |-> << " " >>, sep |-> << ",", " " >>, tail |-> << >> ],
      [ lead |-> << "x" >>, sep |-> << ",", " " >>, tail |-> << >> ],
      [ lead |-> << >>, sep |-> << "," >>, tail |-> << >> ] }

AddressTexts == UNION { [ 1..n -> OctetTexts ] : n \in 3..MaxGroups }

RECURSIVE JoinDots(_)
JoinDots(octets) ==
    IF Len(octets) = 1 THEN octets[1]
    ELSE octets[1] \o << "." >> \o JoinDots(Tail(octets))

FormatLine(p) ==
    p.shape.lead \o JoinDots(p.octets) \o p.shape.sep \o p.user \o << "/" >>
        \o p.password \o p.shape.tail

PipelineIdle ==
    /\ fileExists = TRUE
    /\ file = << >>
    /\ disposition = << >>
    /\ pool_size = 1
    /\ mainPc = "idle"
    /\ tasks = << >>
    /\ queue = << >>
    /\ worker = [ w \in 1..(MaxPool + 1) |-> 0 ]
    /\ returned = << >>
    /\ raisedExc = None
    /\ completed = << >>

InitParse ==
    /\ PipelineIdle
    /\ SortIdle
    /\ parts \in [ octets : AddressTexts, user : UserTexts, password : PasswordTexts,
                    shape : Shapes ]
    /\ line = FormatLine(parts)
    /\ parsed = << >>
    /\ leadingZeros \in { "reject", "allow" }

ParseLine ==
    /\ parsed = << >>
    /\ parsed' = << get_host_credentials_from_line(line, leadingZeros) >>
    /\ UNCHANGED << pipelineVars, parts, line, leadingZeros, completed, sortVars >>

NextParse == ParseLine

SpecParse == InitParse /\ [][NextParse]_vars

(***************************************************************************)
(* sort_random_matrix: the two ways of sorting the rows of a matrix of 0s  *)
(* and 1s.  A matrix is a list of rows, a row a list of numbers; the rows  *)
(* need not have the same length.                                          *)
(***************************************************************************)
\* sum(row)
RECURSIVE Sum(_)
Sum(row) == IF row = << >> THEN 0 ELSE Head(row) + Sum(Tail(row))

\* [x] * n
Repeat(x, n) == [ i \in 1..n |-> x ]

\* Variant: the 1s before the 0s.
CountingRowMutant(row) ==
    LET one_count == Sum(row)
        zero_count == Len(row) - one_count
    IN  Repeat(1, one_count) \o Repeat(0, zero_count)

\* One turn of the loop of sort_matrix_rows_by_counting: the new row.
CountingRow(row) ==
    LET one_count == Sum(row)
        zero_count == Len(row) - one_count
    IN  Repeat(0, zero_count) \o Repeat(1, one_count)

\* The new list of new rows; the argument is only read.
sort_matrix_rows_by_counting(m) == [ r \in 1..Len(m) |-> CountingRow(m[r]) ]

\* list.sort(reverse=reverse), as a sort by insertion.
RECURSIVE Insert(_, _, _)
Insert(x, sorted, reverse) ==
    IF sorted = << >> THEN << x >>
    ELSE IF (IF reverse THEN x >= Head(sorted) ELSE x <= Head(sorted))
    THEN << x >> \o sorted
    ELSE << Head(sorted) >> \o Insert(x, Tail(sorted), reverse)

RECURSIVE SortList(_, _)
SortList(row, reverse) ==
    IF row = << >> THEN << >>
    ELSE Insert(Head(row), SortList(Tail(row), reverse), reverse)

\* The rows of the argument after row.sort on each of them.
sort_matrix_rows_builtin(m, reverse) == [ r \in 1..Len(m) |-> SortList(m[r], reverse) ]

BinaryRows == UNION { [ 1..n -> { 0, 1 } ] : n \in 0..MaxCols }

BinaryMatrices == UNION { [ 1..n -> BinaryRows ] : n \in 0..MaxRows }

InitMatrix ==
    /\ PipelineIdle
    /\ parts = NoParts
    /\ line = << >>
    /\ parsed = << >>
    /\ leadingZeros = "reject"
    /\ matrix \in BinaryMatrices
    /\ original = matrix
    /\ countSorted = Omitted
    /\ builtinSorted = Omitted

\* count_sorted = sort_matrix_rows_by_counting(matrix=matrix)
SortByCounting ==
    /\ countSorted = Omitted
    /\ countSorted' = Given(sort_matrix_rows_by_counting(matrix))
    /\ UNCHANGED << matrix, original, builtinSorted, pipelineVars, parserVars, completed >>

\* sort_matrix_rows_builtin(matrix, reverse): the rows of the argument are
\* sorted in place and the argument itself is returned.
SortBuiltin(reverse) ==
    /\ builtinSorted = Omitted
    /\ matrix' = sort_matrix_rows_builtin(matrix, reverse)
    /\ builtinSorted' = Given([ reverse |-> reverse, rows |-> matrix' ])
    /\ UNCHANGED << original, countSorted, pipelineVars, parserVars, completed >>

NextMatrix ==
    \/ SortByCounting
    \/ \E reverse \in BOOLEAN : SortBuiltin(reverse)

SpecMatrix == InitMatrix /\ [][NextMatrix]_vars

(***************************************************************************)
(* Properties.                                                             *)
(***************************************************************************)
TaskIds == 1..Len(tasks)

ParsedLines == { i \in 1..Len(file) : disposition[i] = "parsed" }

\* The checks whose session exists and is not closed yet: the worker has
\* built the SSHExecutor and is connecting, executing, waiting in a read
\* that does not return, or about to close.
InFlight ==
    { t \in TaskIds : tasks[t].pc \in { "created", "executing", "blocked", "finally" } }

Finished(t) == tasks[t].pc = "done"

\* The check of task t ended with a {"status", "result"} dict, not an exception.
HasResult(t) == Finished(t) /\ tasks[t].exc = None

CommandNames(commands) == { commands[i].command_name : i \in 1..Len(commands) }

NamesUnique(commands) ==
    \A i, j \in 1..Len(commands) :
        commands[i].command_name = commands[j].command_name => i = j

\* C1: no host gets more than one session and no two checks are of the same
\* line; when check_all_hosts_status returns, its list has exactly one entry
\* per parsed host line, each for its own host and each from the one session
\* of that host; and when every check ended with a status (Success,
\* authentication error or timeout) the call does return.
C1_OneEntryPerHost ==
    /\ \A t \in TaskIds : tasks[t].sessions <= 1
    /\ \A t, u \in TaskIds : tasks[t].line = tasks[u].line => t = u
    /\ mainPc = "returned" =>
          /\ Len(returned) = Len(tasks)
          /\ { tasks[t].line : t \in TaskIds } = ParsedLines
          /\ Len(returned) = Cardinality(ParsedLines)
          /\ \A i \in 1..Len(returned) :
                /\ \E t \in TaskIds : returned[i].task = t /\ returned[i].host = tasks[t].host
                /\ \A j \in 1..Len(returned) : returned[i].task = returned[j].task => i = j
          /\ \A t \in TaskIds : tasks[t].sessions = 1
    /\ (mainPc = "raised" /\ fileExists) => \E t \in TaskIds : tasks[t].exc # None

C1_Witness ==
    /\ mainPc = "returned"
    /\ Len(returned) = 3
    /\ pool_size = 2
    /\ { tasks[t].connectOutcome : t \in TaskIds } = { "ok", "auth", "timeout" }

\* C2: at every instant the number of checks in flight is at most the pool size.
C2_AtMostPoolSizeInFlight == Cardinality(InFlight) <= pool_size

C2_Witness ==
    /\ pool_size = 2
    /\ Len(tasks) = 3
    /\ Cardinality(InFlight) = 2
    /\ queue # << >>
    /\ \A t \in InFlight : tasks[t].pc \in { "executing", "finally" }

\* C3: a connect that fails with a transport fault other than a rejection or
\* a timeout is recorded as the status of its host, and the run returns a
\* result for every host, the faulty one included.
C3_FaultRecordedRunContinues ==
    \A t \in TaskIds :
        (tasks[t].connectOutcome = "fault" /\ Finished(t)) =>
            /\ tasks[t].exc = None
            /\ tasks[t].status # None
            /\ mainPc # "raised"
            /\ mainPc = "returned" => Len(returned) = Len(tasks)

\* C4: close is called exactly once on every session, on every exit path of
\* get_commands_results: never before the check ends, once when it has ended.
C4_CloseExactlyOnce ==
    \A t \in TaskIds :
        /\ tasks[t].closes <= 1
        /\ tasks[t].pc \in { "queued", "created", "executing", "finally" } =>
              tasks[t].closes = 0
        /\ Finished(t) => tasks[t].closes = 1 /\ tasks[t].session = "Closed"

C4_Witness ==
    /\ \A t \in TaskIds : Finished(t) /\ tasks[t].closes = 1
    /\ \E t \in TaskIds : tasks[t].connectOutcome = "fault"
    /\ \E t \in TaskIds : tasks[t].connectOutcome = "timeout"
    /\ \E t \in TaskIds :
          /\ tasks[t].connectOutcome = "ok"
          /\ tasks[t].execLog # << >>
          /\ tasks[t].execLog[Len(tasks[t].execLog)].outcome = "fault"

\* C5: every result of a check, as the check returns it and as the list holds
\* it, has an empty command-results mapping unless its status is Success.
C5_EmptyUnlessSuccess ==
    /\ \A t \in TaskIds :
          (HasResult(t) /\ tasks[t].status # "Success") => tasks[t].result = EmptyDict
    /\ \A i \in 1..Len(returned) :
          returned[i].res.status # "Success" => returned[i].res.result = EmptyDict

C5_Witness ==
    /\ mainPc = "returned"
    /\ \E i \in 1..Len(returned) :
          returned[i].res.status = "Authentication error" /\ returned[i].res.result = EmptyDict
    /\ \E i \in 1..Len(returned) :
          returned[i].res.status = "Success" /\ returned[i].res.result # EmptyDict

\* The entry execute_commands leaves for a name: that of the last command of
\* that name.
LastWithName(commands, name) ==
    Max({ i \in 1..Len(commands) : commands[i].command_name = name })

\* C6: the connect outcome determines the status. A successful connect gives
\* Success and an entry for every configured command; a rejection gives
\* "Authentication error" and a timeout gives "Connection timout", both with
\* no entries and with no command executed.
C6_StatusFollowsConnect ==
    \A t \in TaskIds :
        LET task == tasks[t] IN
        /\ (task.connectOutcome = "ok" /\ HasResult(t)) =>
              /\ task.status = "Success"
              /\ Len(task.execLog) = Len(task.commands)
              /\ DOMAIN task.result = CommandNames(task.commands)
              /\ \A name \in DOMAIN task.result :
                    LET o == task.execLog[LastWithName(task.commands, name)].outcome
                    IN  /\ o = "ok" => task.result[name] = [ output |-> "stdout", error |-> "" ]
                        /\ o = "stderr" =>
                              task.result[name] = [ output |-> "stdout", error |-> "stderr" ]
                        /\ o = "chanfail" => task.result[name].output = None
        /\ task.connectOutcome \in { "auth", "timeout" } =>
              /\ task.execLog = << >>
              /\ task.exc = None
              /\ task.result = EmptyDict
              /\ task.status = IF task.connectOutcome = "auth"
                               THEN "Authentication error" ELSE "Connection timout"
        /\ (HasResult(t) /\ task.status = "Success") => task.connectOutcome = "ok"

C6_Witness ==
    \E t \in TaskIds :
        /\ HasResult(t)
        /\ tasks[t].connectOutcome = "timeout"
        /\ tasks[t].status = "Connection timout"
        /\ Len(tasks[t].commands) = 2

\* C7: on a connected host whose command names are distinct, a command whose
\* channel does not open raises nothing: the status stays Success, its entry
\* has no output and a non-empty error, and every other command is executed
\* and has its output, wherever in the list the failing command stands.
C7_ChannelFailureIsLocal ==
    \A t \in TaskIds :
        LET task == tasks[t] IN
        /\ (task.exc # None /\ task.connectOutcome = "ok") =>
              task.execLog[Len(task.execLog)].outcome = "fault"
        /\ ( /\ Finished(t)
             /\ task.connectOutcome = "ok"
             /\ NamesUnique(task.commands)
             /\ \A i \in 1..Len(task.execLog) : task.execLog[i].outcome # "fault" ) =>
              /\ task.exc = None
              /\ task.status = "Success"
              /\ Len(task.execLog) = Len(task.commands)
              /\ \A i \in 1..Len(task.commands) :
                    LET entry == task.result[task.commands[i].command_name]
                    IN  /\ task.execLog[i].index = i
                        /\ task.execLog[i].outcome = "chanfail" =>
                              /\ entry.output = None
                              /\ entry.error \notin { None, "" }
                        /\ task.execLog[i].outcome \in { "ok", "stderr" } =>
                              entry.output = "stdout"

C7_Witness ==
    \E t \in TaskIds :
        /\ HasResult(t)
        /\ tasks[t].status = "Success"
        /\ Len(tasks[t].commands) = 2
        /\ NamesUnique(tasks[t].commands)
        /\ tasks[t].execLog[1].outcome = "chanfail"
        /\ tasks[t].execLog[2].outcome = "ok"
        /\ tasks[t].result["Uptime"].output = "stdout"

\* C8: with no host-list file the call raises, no session is created and no
\* list is returned; and nothing else makes the call raise.
C8_OnlyMissingFileIsFatal ==
    /\ (~fileExists /\ mainPc # "start") =>
          /\ mainPc = "raised"
          /\ raisedExc = "ValueError"
          /\ tasks = << >>
          /\ returned = << >>
    /\ mainPc = "raised" => ~fileExists

\* The first half of C8 alone: what a missing file does.
MissingFileRaises ==
    (~fileExists /\ mainPc # "start") =>
        /\ mainPc = "raised"
        /\ raisedExc = "ValueError"
        /\ tasks = << >>
        /\ returned = << >>

\* A line "a.b.c.d, user/pass", alone or with its line end.
WellFormedShape(p) ==
    /\ Len(p.octets) = 4
    /\ p.shape.lead = << >>
    /\ p.shape.sep = << ",", " " >>
    /\ p.shape.tail \in { << >>, << "\n" >> }

\* The decimal numeral of a number: no zero before another digit.
Canonical(o) == Len(o) = 1 \/ o[1] # "0"

ParsedAs(p) ==
    /\ parsed[1].ok
    /\ parsed[1].host.ip_address = JoinDots(p.octets)
    /\ parsed[1].host.username = p.user
    /\ parsed[1].host.password = p.password

\* C9 as stated: every well-formed line whose four octets are numbers of
\* 0..255 parses to a credential with the address, username and password of
\* the line.
C9_WellFormedParses ==
    ( /\ parsed # << >>
      /\ WellFormedShape(parts)
      /\ \A k \in 1..Len(parts.octets) : DecimalValue(parts.octets[k]) \in 0..255 ) =>
        ParsedAs(parts)

\* C9 amended: the same for the lines whose octets are written without
\* leading zeros.
C9_CanonicalWellFormedParses ==
    ( /\ parsed # << >>
      /\ WellFormedShape(parts)
      /\ \A k \in 1..Len(parts.octets) :
            DecimalValue(parts.octets[k]) \in 0..255 /\ Canonical(parts.octets[k]) ) =>
        ParsedAs(parts)

C9_Witness ==
    /\ parsed # << >>
    /\ parsed[1].ok
    /\ parts.octets = << << "0" >>, << "2", "5", "5" >>, << "2", "5", "5" >>, << "0" >> >>
    /\ parts.user = << "a", "_", "1" >>
    /\ parts.shape.tail = << "\n" >>
    /\ parsed[1].host.ip_address =
          << "0", ".", "2", "5", "5", ".", "2", "5", "5", ".", "0" >>
    /\ parsed[1].host.username = << "a", "_", "1" >>
    /\ parsed[1].host.password = << "p", "9" >>

\* C10: a line whose address has an octet above 255, or not exactly four
\* groups, fails to parse, whatever else the line holds and also when the
\* pattern matches it.
C10_BadAddressFails ==
    ( /\ parsed # << >>
      /\ \/ Len(parts.octets) # 4
         \/ \E k \in 1..Len(parts.octets) : DecimalValue(parts.octets[k]) > 255 ) =>
        /\ ~parsed[1].ok
        /\ parsed[1].error = "ValueError"

C10_Witness ==
    /\ parsed # << >>
    /\ ~parsed[1].ok
    /\ Matches(line) # {}
    /\ \E k \in 1..Len(parts.octets) : parts.octets[k] = << "2", "5", "6" >>

\* For each behaviour of the library, the kinds of line that
\* get_host_credentials_from_line accepts.
AcceptedLines ==
    [ zeros \in { "reject", "allow" } |->
        { l \in ReaderLines : get_host_credentials_from_line(l, zeros).ok } ]

\* The lines of the file read so far that are not comments and that the
\* parser refuses.
BadLines ==
    { i \in 1..Len(file) :
        /\ ~StartsWith(file[i], comment_symbol)
        /\ file[i] \notin AcceptedLines[leadingZeros] }

\* The lines read so far that are not comments and that the parser accepts.
HostLines ==
    { i \in 1..Len(file) :
        /\ ~StartsWith(file[i], comment_symbol)
        /\ file[i] \in AcceptedLines[leadingZeros] }

\* C11: wherever the malformed and invalid-address lines stand in the file,
\* every line read has its own disposition, the bad lines are exactly the
\* skipped ones and get no check, the checks are exactly of the non-comment
\* lines that parse, bad lines before them notwithstanding, and a bad line
\* never makes the run raise.
C11_BadLineSkippedRunContinues ==
    LET bad == BadLines
        hosts == HostLines
    IN  /\ Len(disposition) = Len(file)
        /\ \A i \in 1..Len(file) : i \in bad <=> disposition[i] = "skipped"
        /\ \A i \in bad : \A t \in TaskIds : tasks[t].line # i
        /\ { tasks[t].line : t \in TaskIds } = hosts
        /\ \A i \in hosts : disposition[i] = "parsed"
        /\ (mainPc = "raised" /\ fileExists) => \E t \in TaskIds : tasks[t].exc # None

C11_Witness ==
    /\ file = << MalformedLine, GoodLine, BadAddressLine >>
    /\ mainPc = "returned"
    /\ Len(returned) = 1
    /\ tasks[returned[1].task].line = 2
    /\ tasks[1].sessions = 1

\* The lines read so far with the given disposition.  "comment" is set where
\* get_active_hosts drops the line; "parsed" and "skipped" are set only after
\* the call of get_host_credentials_from_line on the line.
LinesWith(d) == { i \in 1..Len(file) : disposition[i] = d }

\* C12: a line whose first character is the comment symbol is dropped before
\* the parser is called; a line with another first character, the symbol
\* later in it or not, goes to the parser and is parsed or skipped as the
\* parser decides; every line is in exactly one of the three groups, so the
\* three counts add up to the number of lines.
C12_CommentsFilteredLinesAccounted ==
    /\ Len(disposition) = Len(file)
    /\ \A i \in 1..Len(file) :
          IF file[i][1] = ";"
          THEN disposition[i] = "comment"
          ELSE /\ disposition[i] \in { "parsed", "skipped" }
               /\ disposition[i] = "parsed" <=>
                      get_host_credentials_from_line(file[i], leadingZeros).ok
    /\ Cardinality(LinesWith("comment")) + Cardinality(LinesWith("parsed"))
          + Cardinality(LinesWith("skipped")) = Len(file)

C12_Witness ==
    /\ file = << CommentLine, IndentedCommentLine, TrailingCommentLine >>
    /\ disposition = << "comment", "skipped", "parsed" >>
    /\ Len(tasks) = 1
    /\ mainPc = "joining"

\* The steps a session may take from one state to the next.
SessionSteps ==
    { << "none", "Unconnected" >>, << "Unconnected", "Connected" >>,
      << "Unconnected", "Closed" >>, << "Connected", "Closed" >> }

\* C13: in every step of a check the session moves only along
\* Unconnected -> Connected -> Closed (or straight to Closed when connect
\* failed); connect is tried only on an Unconnected session; a command is
\* executed only on a session that is Connected before and after it; and
\* once the session is Closed nothing of the check changes any more.
C13_SessionLifecycle ==
    [][ \A t \in 1..Len(tasks) :
          /\ tasks'[t].session # tasks[t].session =>
                << tasks[t].session, tasks'[t].session >> \in SessionSteps
          /\ tasks'[t].connectOutcome # tasks[t].connectOutcome =>
                tasks[t].session = "Unconnected"
          /\ tasks'[t].execLog # tasks[t].execLog =>
                /\ tasks[t].session = "Connected"
                /\ tasks'[t].session = "Connected"
          /\ tasks[t].session = "Closed" => tasks'[t] = tasks[t] ]_vars

C13_Witness ==
    /\ mainPc = "session"
    /\ tasks[1].session = "Closed"
    /\ tasks[1].connectOutcome = "ok"
    /\ Len(tasks[1].commands) = 2
    /\ Len(tasks[1].execLog) = 2
    /\ tasks[1].closes = 1

\* check_all_hosts_status has neither returned its list nor raised.
Running == mainPc \in { "start", "reading", "joining" }

\* C14: whatever the hosts do, a connect that is never answered and a command
\* whose host falls silent included, the run never comes to a halt before
\* check_all_hosts_status is over: as long as it has not returned, some
\* step of the reader, of a worker or of the final join is possible.
C14_NeverStuckBeforeReturn == Running => ENABLED NextBlocking

\* C15: once check_all_hosts_status has returned its list (or raised what a
\* check raised), every submitted check is over, every session is closed,
\* no call waits in the queue and no worker is busy.
C15_ReturnsAfterAllChecks ==
    mainPc \in { "returned", "raised" } =>
        /\ \A t \in TaskIds : Finished(t) /\ tasks[t].session = "Closed"
        /\ InFlight = {}
        /\ queue = << >>
        /\ \A w \in DOMAIN worker : worker[w] = 0
        /\ Len(tasks) = Cardinality(HostLines)

C15_Witness ==
    /\ mainPc = "returned"
    /\ pool_size = 2
    /\ Len(tasks) = 3
    /\ \A t \in TaskIds : tasks[t].session = "Closed" /\ tasks[t].status = "Success"
    /\ \A i \in 1..3 : returned[i].res.status = "Success"

\* The names of the first n commands of the list.
NamesUpTo(commands, n) == { commands[j].command_name : j \in 1..n }

\* C16: the commands of a session are executed one after the other in the
\* order of the list: the k-th execution is of the k-th command, so a
\* command runs only when all before it have run, and the dict collected so
\* far has entries only for commands already executed; a Success result has
\* an entry for every configured command name and for nothing else.
C16_CommandsInListOrder ==
    \A t \in TaskIds :
        /\ Len(tasks[t].execLog) <= Len(tasks[t].commands)
        /\ \A k \in 1..Len(tasks[t].execLog) : tasks[t].execLog[k].index = k
        /\ DOMAIN tasks[t].results
              \subseteq NamesUpTo(tasks[t].commands, Len(tasks[t].execLog))
        /\ (HasResult(t) /\ tasks[t].status = "Success") =>
              /\ Len(tasks[t].execLog) = Len(tasks[t].commands)
              /\ DOMAIN tasks[t].result = CommandNames(tasks[t].commands)

C16_Witness ==
    /\ mainPc = "session"
    /\ HasResult(1)
    /\ tasks[1].status = "Success"
    /\ tasks[1].commands = << Command("Uptime", "uptime"), Command("Storage", "df -h /") >>
    /\ << tasks[1].execLog[1].index, tasks[1].execLog[2].index >> = << 1, 2 >>
    /\ DOMAIN tasks[1].result = { "Uptime", "Storage" }

\* The worker threads that are running the check of task t.
Holders(t) == { w \in DOMAIN worker : worker[w] = t }

\* C17: every check in flight is run by exactly one worker and a check that
\* has not started or is over by none, so no session is shared and no
\* worker has two open sessions; a worker lets go of a check only when that
\* check is over, session closed, and only then takes another; and every
\* step on a check is made while one and the same worker holds it.
C17_OneWorkerPerSession ==
    /\ [](\A t \in TaskIds :
            /\ t \in InFlight => Cardinality(Holders(t)) = 1
            /\ t \notin InFlight => Holders(t) = {})
    /\ [][ /\ \A w \in DOMAIN worker :
                (worker[w] # 0 /\ worker'[w] # worker[w]) =>
                    /\ worker'[w] = 0
                    /\ tasks'[worker[w]].pc = "done"
                    /\ tasks'[worker[w]].session = "Closed"
           /\ \A t \in 1..Len(tasks) :
                tasks'[t] # tasks[t] =>
                    Cardinality({ w \in DOMAIN worker :
                                    worker[w] = t \/ worker'[w] = t }) = 1 ]_vars

C17_Witness ==
    /\ pool_size = 2
    /\ Len(tasks) = 3
    /\ Finished(1)
    /\ Holders(1) = {}
    /\ \E w, v \in DOMAIN worker : w # v /\ Holders(2) = { w } /\ Holders(3) = { v }
    /\ tasks[2].session = "Connected"
    /\ tasks[3].session = "Connected"

\* The line of the same fields with nothing after the password.
WithoutTail(p) == FormatLine([ p EXCEPT !.shape.tail = << >> ])

\* C18: a line with a character before the address is refused, and a line
\* whose password is followed by a character that is not a word character,
\* and by whatever comes after it, gives just what the line cut off after
\* the password gives: the same credential when that line is well formed.
C18_AnchoredAtStartTailIgnored ==
    parsed # << >> =>
        /\ parts.shape.lead # << >> => ~parsed[1].ok
        /\ (parts.shape.lead = << >> /\ parts.shape.tail # << >>
              /\ ~IsWord(parts.shape.tail[1])) =>
                parsed[1] = get_host_credentials_from_line(WithoutTail(parts), leadingZeros)

C18_Witness ==
    /\ parsed # << >>
    /\ parts.shape = [ lead |-> << >>, sep |-> << ",", " " >>, tail |-> << ";", "x" >> ]
    /\ parts.octets = << << "0" >>, << "2", "5", "5" >>, << "0" >>, << "2", "5", "5" >> >>
    /\ parsed[1].ok
    /\ parsed[1].host.password = << "p", "9" >>
    /\ parsed[1].host.ip_address = JoinDots(parts.octets)

\* C19: the list check_all_hosts_status returns has the results in the order
\* of the host lines in the file, first line first, each entry with the
\* host of its line, in whatever order the workers ended the checks and
\* for every pool size.
C19_ResultsInFileOrder ==
    mainPc = "returned" =>
        /\ Len(returned) = Cardinality(HostLines)
        /\ \A i \in 1..Len(returned) :
              LET l == tasks[returned[i].task].line
              IN  /\ l \in HostLines
                  /\ returned[i].host =
                        get_host_credentials_from_line(file[l], leadingZeros).host
                  /\ returned[i].res.status = tasks[returned[i].task].status
        /\ \A i, j \in 1..Len(returned) :
              i < j => tasks[returned[i].task].line < tasks[returned[j].task].line

C19_Witness ==
    /\ mainPc = "returned"
    /\ pool_size = 2
    /\ file = << GoodLine, GoodLine, GoodLine >>
    /\ completed = << 2, 3, 1 >>
    /\ << returned[1].task, returned[2].task, returned[3].task >> = << 1, 2, 3 >>

\* The row has no 1 before a 0.
Ascending(row) == \A i, j \in 1..Len(row) : i < j => row[i] <= row[j]

\* C20: for every matrix of 0s and 1s, what sort_matrix_rows_by_counting
\* returned has as many rows as the matrix had, each ascending, of the
\* length and with the number of 1s of the row it comes from; it is the
\* matrix sort_matrix_rows_builtin with reverse=False makes of the same
\* rows, and equals what that function returned when it was called too;
\* the counting sort alone leaves the matrix as it was built, while after
\* the builtin sort the matrix itself is the sorted one.
C20_CountingEqualsBuiltin ==
    /\ countSorted # Omitted =>
          /\ Len(countSorted[1]) = Len(original)
          /\ \A r \in 1..Len(original) :
                /\ Len(countSorted[1][r]) = Len(original[r])
                /\ Sum(countSorted[1][r]) = Sum(original[r])
                /\ \A i \in 1..Len(original[r]) : countSorted[1][r][i] \in { 0, 1 }
                /\ Ascending(countSorted[1][r])
          /\ countSorted[1] = sort_matrix_rows_builtin(original, FALSE)
          /\ (builtinSorted # Omitted /\ ~builtinSorted[1].reverse) =>
                countSorted[1] = builtinSorted[1].rows
    /\ (countSorted # Omitted /\ builtinSorted = Omitted) => matrix = original
    /\ builtinSorted # Omitted => matrix = builtinSorted[1].rows

C20_Witness ==
    /\ original = << << 1, 0, 1 >>, << 1, 0 >> >>
    /\ countSorted = Given(<< << 0, 1, 1 >>, << 0, 1 >> >>)
    /\ builtinSorted # Omitted
    /\ ~builtinSorted[1].reverse
    /\ builtinSorted[1].rows = countSorted[1]
    /\ matrix # original

====
